---- MODULE Spec2Model ----
(***************************************************************************)
(* Model of the real-estate chatbot: the RealEstateDataProcessor of        *)
(* utils/data_processor.py and the ChatQueryView of chatbot/views.py.      *)
(*                                                                         *)
(* Text is a sequence of character codes, so lower(), strip(), replace()   *)
(* and the substring test `x in y` are computed character by character.    *)
(* A spreadsheet cell is a string, a number or empty (NaN).  A number is  *)
(* a fraction n/d, or one of inf, -inf, nan.  A call either returns a      *)
(* value or raises.                                                        *)
(***************************************************************************)
EXTENDS Integers, Sequences, FiniteSets, TLC

VARIABLES file, call, result

vars == <<file, call, result>>

-----------------------------------------------------------------------------
(* Text *)

Min(a, b) == IF a <= b THEN a ELSE b

Range(s) == {s[i] : i \in 1..Len(s)}

\* str.lower()
Lower(s) == [i \in 1..Len(s) |-> IF s[i] \in 65..90 THEN s[i] + 32 ELSE s[i]]

\* str.strip(): leading and trailing blanks removed
Strip(s) ==
    LET keep == {i \in 1..Len(s) : s[i] # 32}
    IN  IF keep = {} THEN <<>>
        ELSE LET lo == CHOOSE i \in keep : \A j \in keep : i <= j
                 hi == CHOOSE i \in keep : \A j \in keep : j <= i
             IN  SubSeq(s, lo, hi)

\* str.replace(' ', '_')
ReplaceBlanks(s) == [i \in 1..Len(s) |-> IF s[i] = 32 THEN 95 ELSE s[i]]

\* needle in hay
Contains(hay, needle) ==
    \E i \in 0..(Len(hay) - Len(needle)) :
        \A j \in 1..Len(needle) : hay[i + j] = needle[j]

\* a < b for Python strings: by code point, a proper prefix first
StrLess(a, b) ==
    LET diff == {i \in 1..Min(Len(a), Len(b)) : a[i] # b[i]}
    IN  IF diff = {} THEN Len(a) < Len(b)
        ELSE LET i == CHOOSE k \in diff : \A j \in diff : k <= j
             IN  a[i] < b[i]

\* ', '.join / ' vs '.join
RECURSIVE Join(_, _)
Join(sep, parts) ==
    IF parts = <<>> THEN <<>>
    ELSE IF Len(parts) = 1 THEN parts[1]
    ELSE parts[1] \o sep \o Join(sep, Tail(parts))

-----------------------------------------------------------------------------
(* Cells and numbers *)

StrCell(s) == [k |-> "str", s |-> s, n |-> 0]
NumCell(n) == [k |-> "num", s |-> <<>>, n |-> n]
NaNCell    == [k |-> "nan", s |-> <<>>, n |-> 0]

Abs(n) == IF n < 0 THEN -n ELSE n

RECURSIVE GCD(_, _)
GCD(a, b) == IF b = 0 THEN a ELSE GCD(b, a % b)

\* the float n/d (d > 0), in lowest terms
Fin(n, d) ==
    LET g == GCD(Abs(n), d)
    IN  [k |-> "fin", n |-> n \div g, d |-> d \div g]

Inf    == [k |-> "inf", n |-> 1, d |-> 1]
NegInf == [k |-> "ninf", n |-> -1, d |-> 1]
NaN    == [k |-> "nan", n |-> 0, d |-> 1]

\* x > c and x < c for a float x and an integer literal c; false for nan
GtInt(x, c) ==
    CASE x.k = "fin" -> x.n > c * x.d
      [] x.k = "inf" -> TRUE
      [] OTHER -> FALSE

LtInt(x, c) ==
    CASE x.k = "fin" -> x.n < c * x.d
      [] x.k = "ninf" -> TRUE
      [] OTHER -> FALSE

\* abs(x)
AbsNum(x) ==
    CASE x.k = "fin" -> [x EXCEPT !.n = Abs(x.n)]
      [] x.k = "ninf" -> Inf
      [] OTHER -> x

\* a - b, a / b and a * 100 on numpy float64: a division by zero gives
\* inf, -inf or nan, never an exception
NumSub(a, b) ==
    IF a.k = "fin" /\ b.k = "fin" THEN Fin(a.n * b.d - b.n * a.d, a.d * b.d)
    ELSE NaN

NumDiv(a, b) ==
    IF a.k # "fin" \/ b.k # "fin" THEN NaN
    ELSE IF b.n = 0 THEN (IF a.n > 0 THEN Inf ELSE IF a.n < 0 THEN NegInf ELSE NaN)
    ELSE IF b.n > 0 THEN Fin(a.n * b.d, a.d * b.n)
    ELSE Fin(-(a.n * b.d), a.d * (-b.n))

NumTimes100(a) == IF a.k = "fin" THEN Fin(a.n * 100, a.d) ELSE a

RECURSIVE Pow10(_)
Pow10(p) == IF p = 0 THEN 1 ELSE 10 * Pow10(p - 1)

\* round(x, p) and the formats :.pf : the nearest multiple of 10^-p, a tie
\* going to the even one (ties are decided on the exact value)
RoundTo(x, p) ==
    IF x.k # "fin" THEN x
    ELSE LET num == x.n * Pow10(p)
             q   == num \div x.d
             r2  == 2 * (num % x.d)
             up  == r2 > x.d \/ (r2 = x.d /\ q % 2 = 1)
         IN  Fin(IF up THEN q + 1 ELSE q, Pow10(p))

RECURSIVE SumSeq(_)
SumSeq(s) == IF s = <<>> THEN 0 ELSE s[1] + SumSeq(Tail(s))

\* Series.mean() of numeric cells, blanks skipped: nan when nothing is left
MeanOf(cells) ==
    LET nums == SelectSeq(cells, LAMBDA c : c.k = "num")
    IN  IF nums = <<>> THEN NaN
        ELSE Fin(SumSeq([i \in 1..Len(nums) |-> nums[i].n]), Len(nums))

\* Series.min() / Series.max() of numeric cells, blanks skipped
MinOf(cells) ==
    LET ns == {cells[i].n : i \in {j \in 1..Len(cells) : cells[j].k = "num"}}
    IN  IF ns = {} THEN NaN ELSE Fin(CHOOSE m \in ns : \A o \in ns : m <= o, 1)

MaxOf(cells) ==
    LET ns == {cells[i].n : i \in {j \in 1..Len(cells) : cells[j].k = "num"}}
    IN  IF ns = {} THEN NaN ELSE Fin(CHOOSE m \in ns : \A o \in ns : o <= m, 1)

\* a call's outcome
Return(v) == [raised |-> FALSE, value |-> v]
Raise(e)  == [raised |-> TRUE, value |-> e]

-----------------------------------------------------------------------------
(* RealEstateDataProcessor *)

tok_area     == <<97, 114, 101, 97>>                      \* "area"
tok_location == <<108, 111, 99, 97, 116, 105, 111, 110>>  \* "location"
tok_year     == <<121, 101, 97, 114>>                     \* "year"
tok_price    == <<112, 114, 105, 99, 101>>                \* "price"
tok_demand   == <<100, 101, 109, 97, 110, 100>>           \* "demand"
tok_size     == <<115, 105, 122, 101>>                    \* "size"

\* load_data: read_excel, then the column names stripped, lower-cased and
\* their blanks replaced; a file that cannot be read raises
load_data(f) ==
    IF ~f.ok THEN Raise("LoadError")
    ELSE Return([columns |-> [i \in 1..Len(f.headers) |->
                                 ReplaceBlanks(Lower(Strip(f.headers[i])))],
                 rows |-> f.rows])

\* df[col]: the cells of the column named col, in row order
Column(df, col) ==
    LET i == CHOOSE j \in 1..Len(df.columns) : df.columns[j] = col
    IN  [r \in 1..Len(df.rows) |-> df.rows[r][i]]

\* the dtype pandas gives a column: object when it holds a string (or the
\* sheet has no rows), numeric when it holds numbers and blanks only
IsObject(cells) == cells = <<>> \/ \E i \in 1..Len(cells) : cells[i].k = "str"

\* next((col for col in columns if cond(col)), None); None is <<>>
FirstCol(columns, Cond(_)) ==
    LET hit == SelectSeq(columns, Cond)
    IN  IF hit = <<>> THEN <<>> ELSE hit[1]

IsAreaName(col) ==
    Contains(Lower(col), tok_area) \/ Contains(Lower(col), tok_location)

\* the list area_columns of get_available_areas, filter_by_area and
\* _get_area_column
area_columns(df) == SelectSeq(df.columns, IsAreaName)

_get_area_column(df) ==
    IF area_columns(df) # <<>> THEN area_columns(df)[1] ELSE <<>>

year_col(columns) == FirstCol(columns, LAMBDA col : Contains(Lower(col), tok_year))
price_col(columns) == FirstCol(columns, LAMBDA col : Contains(Lower(col), tok_price))
demand_col(columns) == FirstCol(columns, LAMBDA col : Contains(Lower(col), tok_demand))

\* 'size' in col or ('area' in col and col != area column): `and` binds
\* tighter than `or`
size_col(df) ==
    FirstCol(df.columns,
             LAMBDA col : \/ Contains(Lower(col), tok_size)
                          \/ /\ Contains(Lower(col), tok_area)
                             /\ col # _get_area_column(df))

\* sorted(list): strings by code point, numbers by value; a list that mixes
\* the two cannot be ordered
CellLess(a, b) == IF a.k = "str" THEN StrLess(a.s, b.s) ELSE a.n < b.n

RECURSIVE SortCells(_)
SortCells(S) ==
    IF S = {} THEN <<>>
    ELSE LET m == CHOOSE x \in S : \A y \in S : x = y \/ CellLess(x, y)
         IN  <<m>> \o SortCells(S \ {m})

get_available_areas(df) ==
    IF area_columns(df) # <<>>
    THEN LET cells  == Column(df, area_columns(df)[1])
             unique == {c \in Range(cells) : c.k # "nan"}
         IN  IF \E a, b \in unique : a.k # b.k THEN Raise("TypeError")
             ELSE Return(SortCells(unique))
    ELSE Return(<<>>)

\* pd.DataFrame()
EmptyFrame == [columns |-> <<>>, rows |-> <<>>]

\* filter_by_area: the .str accessor raises on a column that is not of object
\* dtype; a cell that is not a string equals no area
filter_by_area_lower_one_side(df, area) ==
    IF area_columns(df) = <<>> THEN Return(EmptyFrame)
    ELSE LET area_col == area_columns(df)[1]
             cells    == Column(df, area_col)
         IN  IF ~IsObject(cells) THEN Raise("AttributeError")
             ELSE Return([df EXCEPT !.rows =
                     SelectSeq(df.rows, LAMBDA row :
                         LET c == row[CHOOSE j \in 1..Len(df.columns) :
                                          df.columns[j] = area_col]
                         IN  c.k = "str" /\ c.s = Lower(area))])

filter_by_area(df, area) ==
    IF area_columns(df) = <<>> THEN Return(EmptyFrame)
    ELSE LET area_col == area_columns(df)[1]
             cells    == Column(df, area_col)
         IN  IF ~IsObject(cells) THEN Raise("AttributeError")
             ELSE Return([df EXCEPT !.rows =
                     SelectSeq(df.rows, LAMBDA row :
                         LET c == row[CHOOSE j \in 1..Len(df.columns) :
                                          df.columns[j] = area_col]
                         IN  c.k = "str" /\ Lower(c.s) = Lower(area))])

RECURSIVE SortInts(_)
SortInts(S) ==
    IF S = {} THEN <<>>
    ELSE LET m == CHOOSE x \in S : \A y \in S : x <= y
         IN  <<m>> \o SortInts(S \ {m})

\* one statement after another: an exception raised by the first ends the call
Then(m, Rest(_)) == IF m.raised THEN m ELSE Rest(m.value)

\* Series.mean(): raises on a column holding a string
mean(cells) ==
    IF \E i \in 1..Len(cells) : cells[i].k = "str" THEN Raise("TypeError")
    ELSE Return(MeanOf(cells))

\* filtered.groupby(year_col)[metric_col].mean(), sorted by year: one entry per
\* distinct year (rows with a blank year are dropped).  The mean of a column
\* holding a string raises, and so does int() of a year that is a string.
yearly_mean(filtered, ycol, mcol) ==
    LET ys == Column(filtered, ycol)
        ms == Column(filtered, mcol)
        years == SortInts({ys[i].n : i \in {j \in 1..Len(ys) : ys[j].k = "num"}})
        group(y) == LET at == SortInts({i \in 1..Len(ys) :
                                           ys[i].k = "num" /\ ys[i].n = y})
                    IN  [k \in 1..Len(at) |-> ms[at[k]]]
    IN  IF \E i \in 1..Len(ms) : ms[i].k = "str" THEN Raise("TypeError")
        ELSE IF \E i \in 1..Len(ys) : ys[i].k = "str" THEN Raise("ValueError")
        ELSE Return([y \in 1..Len(years) |->
                        [year |-> years[y], mean |-> MeanOf(group(years[y]))]])

\* get_price_trend / get_demand_trend (kind is "price" or "demand")
get_trend(df, area, kind) ==
    Then(filter_by_area(df, area), LAMBDA filtered :
        IF filtered.rows = <<>>
        THEN Return([labels |-> <<>>, data |-> <<>>, error |-> "No data found"])
        ELSE LET ycol == year_col(filtered.columns)
                 mcol == IF kind = "price" THEN price_col(filtered.columns)
                         ELSE demand_col(filtered.columns)
             IN  IF ycol # <<>> /\ mcol # <<>>
                 THEN Then(yearly_mean(filtered, ycol, mcol), LAMBDA trend :
                          Return([labels |-> [i \in 1..Len(trend) |-> trend[i].year],
                                  data |-> [i \in 1..Len(trend) |->
                                               RoundTo(trend[i].mean, 2)],
                                  title |-> [trend |-> kind, area |-> area],
                                  type |-> kind]))
                 ELSE Return([labels |-> <<>>, data |-> <<>>,
                              error |-> "data not available"]))

get_price_trend(df, area) == get_trend(df, area, "price")
get_demand_trend(df, area) == get_trend(df, area, "demand")

RECURSIVE compare_loop_overwrite(_, _, _, _, _)
compare_loop_overwrite(df, areas, ycol, mcol, acc) ==
    IF areas = <<>> THEN Return(acc)
    ELSE Then(filter_by_area(df, areas[1]), LAMBDA filtered :
             IF filtered.rows = <<>>
             THEN compare_loop_overwrite(df, Tail(areas), ycol, mcol, acc)
             ELSE Then(yearly_mean(filtered, ycol, mcol), LAMBDA trend :
                      compare_loop_overwrite(df, Tail(areas), ycol, mcol,
                          [all_years |-> {trend[i].year : i \in 1..Len(trend)},
                           datasets |-> Append(acc.datasets,
                               [label |-> areas[1],
                                data |-> [i \in 1..Len(trend) |->
                                             RoundTo(trend[i].mean, 2)]])])))

\* the loop of compare_areas over the areas left, from the years and datasets
\* gathered so far
RECURSIVE compare_loop(_, _, _, _, _)
compare_loop(df, areas, ycol, mcol, acc) ==
    IF areas = <<>> THEN Return(acc)
    ELSE Then(filter_by_area(df, areas[1]), LAMBDA filtered :
             IF filtered.rows = <<>>
             THEN compare_loop(df, Tail(areas), ycol, mcol, acc)
             ELSE Then(yearly_mean(filtered, ycol, mcol), LAMBDA trend :
                      compare_loop(df, Tail(areas), ycol, mcol,
                          [all_years |-> acc.all_years \cup
                               {trend[i].year : i \in 1..Len(trend)},
                           datasets |-> Append(acc.datasets,
                               [label |-> areas[1],
                                data |-> [i \in 1..Len(trend) |->
                                             RoundTo(trend[i].mean, 2)]])])))

\* compare_areas (metric is "price" or "demand")
compare_areas(df, areas, metric) ==
    LET ycol == year_col(df.columns)
        mcol == IF metric = "price" THEN price_col(df.columns)
                ELSE demand_col(df.columns)
    IN  IF ycol = <<>> \/ mcol = <<>>
        THEN Return([labels |-> <<>>, datasets |-> <<>>, title |-> metric])
        ELSE Then(compare_loop(df, areas, ycol, mcol,
                               [all_years |-> {}, datasets |-> <<>>]),
                  LAMBDA gathered :
                      Return([labels |-> SortInts(gathered.all_years),
                              datasets |-> gathered.datasets,
                              title |-> metric]))

growth_pct_of_last(yearly) ==
    NumTimes100(NumDiv(NumSub(yearly[Len(yearly)].mean, yearly[1].mean),
                       yearly[Len(yearly)].mean))

\* (last - first) / first * 100 of the yearly means
growth_pct(yearly) ==
    NumTimes100(NumDiv(NumSub(yearly[Len(yearly)].mean, yearly[1].mean),
                       yearly[1].mean))

\* the price block of get_summary_stats: avg, min and max, and the growth and
\* the year range when the year column is resolved and spans 2 years or more
price_stats(filtered, pcol, ycol) ==
    Then(mean(Column(filtered, pcol)), LAMBDA avg :
        LET base == [avg_price |-> avg,
                     min_price |-> MinOf(Column(filtered, pcol)),
                     max_price |-> MaxOf(Column(filtered, pcol))]
        IN  IF ycol = <<>> THEN Return(base)
            ELSE Then(yearly_mean(filtered, ycol, pcol), LAMBDA yearly :
                     IF Len(yearly) > 1
                     THEN Return(base @@
                              [price_growth_pct |-> growth_pct(yearly),
                               years_analyzed |-> <<yearly[1].year,
                                                    yearly[Len(yearly)].year>>])
                     ELSE Return(base)))

\* the demand block of get_summary_stats
demand_stats(filtered, dcol) ==
    Then(mean(Column(filtered, dcol)), LAMBDA avg :
        Return([avg_demand |-> avg,
                min_demand |-> MinOf(Column(filtered, dcol)),
                max_demand |-> MaxOf(Column(filtered, dcol))]))

\* the size block of get_summary_stats
size_stats(filtered, scol) ==
    Then(mean(Column(filtered, scol)), LAMBDA avg : Return([avg_size |-> avg]))

get_summary_stats(df, area) ==
    Then(filter_by_area(df, area), LAMBDA filtered :
        IF filtered.rows = <<>> THEN Return([error |-> "No data found"])
        ELSE LET pcol == price_col(filtered.columns)
                 dcol == demand_col(filtered.columns)
                 scol == size_col(df)
                 ycol == year_col(filtered.columns)
             IN  Then(IF pcol # <<>> THEN price_stats(filtered, pcol, ycol)
                      ELSE Return(<<>>), LAMBDA price :
                 Then(IF dcol # <<>> THEN demand_stats(filtered, dcol)
                      ELSE Return(<<>>), LAMBDA demand :
                 Then(IF scol # <<>> THEN size_stats(filtered, scol)
                      ELSE Return(<<>>), LAMBDA size :
                     Return([area |-> area, total_records |-> Len(filtered.rows)]
                            @@ price @@ demand @@ size)))))

\* get_filtered_table_data: the first `limit` rows of the area
get_filtered_table_data(df, area, limit) ==
    Then(filter_by_area(df, area), LAMBDA filtered :
        IF filtered.rows = <<>> THEN Return(<<>>)
        ELSE Return(SubSeq(filtered.rows, 1, Min(limit, Len(filtered.rows)))))

sep_comma == <<44, 32>>  \* ", "

\* ', '.join(names): join() raises on an item that is not a string
join_names(sep, cells) ==
    IF \E i \in 1..Len(cells) : cells[i].k # "str" THEN Raise("TypeError")
    ELSE Return(Join(sep, [i \in 1..Len(cells) |-> cells[i].s]))

Head5_uncapped(list) == list

\* available_areas[:5]
Head5(list) == SubSeq(list, 1, Min(5, Len(list)))

\* the growth line of the price section
growth_trend(growth) ==
    [trend_word |-> IF GtInt(growth, 0) THEN "increased"
                    ELSE IF LtInt(growth, 0) THEN "decreased"
                    ELSE "remained stable",
     pct |-> RoundTo(AbsNum(growth), 2)]

demand_level_inclusive(avg_demand) ==
    IF ~LtInt(avg_demand, 70) /\ avg_demand.k # "nan" THEN "High"
    ELSE IF ~LtInt(avg_demand, 40) /\ avg_demand.k # "nan" THEN "Moderate"
    ELSE "Low"

\* the demand section
demand_level(avg_demand) ==
    IF GtInt(avg_demand, 70) THEN "High"
    ELSE IF GtInt(avg_demand, 40) THEN "Moderate"
    ELSE "Low"

\* the growth line of the insights section
growth_insight(growth) ==
    IF GtInt(growth, 5) THEN [framing |-> "strong", pct |-> RoundTo(growth, 1)]
    ELSE IF GtInt(growth, 0) THEN [framing |-> "steady", pct |-> RoundTo(growth, 1)]
    ELSE [framing |-> "decline", pct |-> RoundTo(AbsNum(growth), 1)]

\* the demand line of the insights section: none for a demand of 40 or less
demand_insight(avg_demand) ==
    IF GtInt(avg_demand, 70) THEN [demand_insight |-> "High"]
    ELSE IF GtInt(avg_demand, 40) THEN [demand_insight |-> "Moderate"]
    ELSE <<>>

\* The text of generate_summary, section by section: a key is present when
\* the section is written.  A number is given as the format prints it.
generate_summary(df, area, stats) ==
    IF "error" \in DOMAIN stats
    THEN Then(get_available_areas(df), LAMBDA available :
         Then(join_names(sep_comma, Head5(available)), LAMBDA names :
             Return([kind |-> "error", area |-> area, available_areas |-> names])))
    ELSE Return(
        [kind |-> "report", area |-> area,
         total_records |-> stats.total_records]
        @@ (IF "years_analyzed" \in DOMAIN stats
            THEN [years_analyzed |-> stats.years_analyzed] ELSE <<>>)
        @@ (IF "avg_price" \in DOMAIN stats
            THEN [price_analysis |->
                     [avg |-> RoundTo(stats.avg_price, 0),
                      min |-> RoundTo(stats.min_price, 0),
                      max |-> RoundTo(stats.max_price, 0)]]
                 @@ (IF "price_growth_pct" \in DOMAIN stats
                     THEN [growth_trend |-> growth_trend(stats.price_growth_pct)]
                     ELSE <<>>)
            ELSE <<>>)
        @@ (IF "avg_demand" \in DOMAIN stats
            THEN [demand_analysis |->
                     [demand_level |-> demand_level(stats.avg_demand),
                      index |-> RoundTo(stats.avg_demand, 2),
                      min |-> RoundTo(stats.min_demand, 2),
                      max |-> RoundTo(stats.max_demand, 2)]]
            ELSE <<>>)
        @@ (IF "avg_size" \in DOMAIN stats
            THEN [property_size |-> RoundTo(stats.avg_size, 0)] ELSE <<>>)
        @@ [key_insights |-> TRUE]
        @@ (IF "price_growth_pct" \in DOMAIN stats
            THEN [growth_insight |-> growth_insight(stats.price_growth_pct)]
            ELSE <<>>)
        @@ (IF "avg_demand" \in DOMAIN stats
            THEN demand_insight(stats.avg_demand) ELSE <<>>))

-----------------------------------------------------------------------------
(* ChatQueryView *)

compare_keywords ==
    << <<99, 111, 109, 112, 97, 114, 101>>,                  \* "compare"
       <<99, 111, 109, 112, 97, 114, 105, 115, 111, 110>>,   \* "comparison"
       <<118, 101, 114, 115, 117, 115>>,                     \* "versus"
       <<118, 115>>,                                         \* "vs"
       <<118, 115, 46>>,                                     \* "vs."
       <<99, 111, 109, 112, 97, 114, 101, 32, 116, 111>> >>  \* "compare to"

demand_keywords ==
    << <<100, 101, 109, 97, 110, 100>>,                           \* "demand"
       <<100, 101, 109, 97, 110, 100, 115>>,                      \* "demands"
       <<112, 111, 112, 117, 108, 97, 114, 105, 116, 121>> >>     \* "popularity"

price_keywords ==
    << <<112, 114, 105, 99, 101>>,                                       \* "price"
       <<99, 111, 115, 116>>,                                            \* "cost"
       <<103, 114, 111, 119, 116, 104>>,                                 \* "growth"
       <<97, 112, 112, 114, 101, 99, 105, 97, 116, 105, 111, 110>>,      \* "appreciation"
       <<118, 97, 108, 117, 101>> >>                                     \* "value"

\* any(word in query_lower for word in keywords)
AnyWordIn(keywords, query_lower) ==
    \E i \in 1..Len(keywords) : Contains(query_lower, keywords[i])

intent_of_demand_first(query_lower) ==
    IF AnyWordIn(demand_keywords, query_lower) THEN "demand"
    ELSE IF AnyWordIn(compare_keywords, query_lower) THEN "compare"
    ELSE IF AnyWordIn(price_keywords, query_lower) THEN "price"
    ELSE "analysis"

\* the intent chain of _parse_query
intent_of(query_lower) ==
    IF AnyWordIn(compare_keywords, query_lower) THEN "compare"
    ELSE IF AnyWordIn(demand_keywords, query_lower) THEN "demand"
    ELSE IF AnyWordIn(price_keywords, query_lower) THEN "price"
    ELSE "analysis"

\* the areas loop of _parse_query: the known areas found in the query, in the
\* order of the list
mentioned_areas_first_five(available_areas, query_lower) ==
    Head5(SelectSeq(available_areas,
                    LAMBDA area : Contains(query_lower, Lower(area))))

mentioned_areas(available_areas, query_lower) ==
    SelectSeq(available_areas, LAMBDA area : Contains(query_lower, Lower(area)))

\* _parse_query: area.lower() raises on an area that is not a string
_parse_query(query, df) ==
    Then(get_available_areas(df), LAMBDA available :
        IF \E i \in 1..Len(available) : available[i].k # "str"
        THEN Raise("AttributeError")
        ELSE Return([intent |-> intent_of(Lower(query)),
                     areas |-> mentioned_areas(
                                  [i \in 1..Len(available) |-> available[i].s],
                                  Lower(query))]))

None == [none |-> TRUE]

_handle_single_area_analysis(area, intent, df) ==
    Then(get_summary_stats(df, area), LAMBDA stats :
        IF "error" \in DOMAIN stats
        THEN Then(generate_summary(df, area, stats), LAMBDA summary :
                 Return([summary |-> summary, chart |-> None,
                         table |-> <<>>, stats |-> stats]))
        ELSE Then(IF intent = "demand" THEN get_demand_trend(df, area)
                  ELSE get_price_trend(df, area), LAMBDA chart_data :
             Then(generate_summary(df, area, stats), LAMBDA summary :
             Then(get_filtered_table_data(df, area, 20), LAMBDA table_data :
                 Return([summary |-> summary, chart |-> chart_data,
                         table |-> table_data, stats |-> stats])))))

sep_vs == <<32, 118, 115, 32>>  \* " vs "

\* the section of the comparison summary for one area's stats
comparison_section(area, stats, metric) ==
    [area |-> area]
    @@ (IF "avg_price" \in DOMAIN stats /\ metric = "price"
        THEN [avg_price |-> RoundTo(stats.avg_price, 0)]
             @@ (IF "price_growth_pct" \in DOMAIN stats
                 THEN [growth |->
                         [up |-> GtInt(stats.price_growth_pct, 0),
                          pct |-> RoundTo(stats.price_growth_pct, 2)]]
                 ELSE <<>>)
        ELSE <<>>)
    @@ (IF "avg_demand" \in DOMAIN stats /\ metric = "demand"
        THEN [demand_index |->
                 [high |-> GtInt(stats.avg_demand, 70),
                  index |-> RoundTo(stats.avg_demand, 2)]]
        ELSE <<>>)

\* the loop of _handle_comparison over the areas left
RECURSIVE comparison_sections(_, _, _, _)
comparison_sections(df, areas, metric, acc) ==
    IF areas = <<>> THEN Return(acc)
    ELSE Then(get_summary_stats(df, areas[1]), LAMBDA stats :
             comparison_sections(df, Tail(areas), metric,
                 IF "error" \notin DOMAIN stats
                 THEN Append(acc, comparison_section(areas[1], stats, metric))
                 ELSE acc))

\* metric = 'price'; if 'demand' in query_lower: metric = 'demand'
comparison_metric(query_lower) ==
    IF Contains(query_lower, tok_demand) THEN "demand" ELSE "price"

_handle_comparison(areas, query, df) ==
    Then(compare_areas(df, areas, comparison_metric(Lower(query))),
         LAMBDA chart_data :
    Then(comparison_sections(df, areas, comparison_metric(Lower(query)), <<>>),
         LAMBDA sections :
    Then(get_filtered_table_data(df, areas[1], 10), LAMBDA table_data :
        Return([summary |-> [kind |-> "comparison",
                             title |-> Join(sep_vs, areas),
                             metric |-> comparison_metric(Lower(query)),
                             n_areas |-> Len(areas),
                             sections |-> sections],
                chart |-> chart_data,
                table |-> table_data,
                comparison |-> TRUE]))))

Response(body, status) == [status |-> status, body |-> body]

dispatch_any_compare(intent, areas) ==
    IF areas = <<>> THEN "clarification"
    ELSE IF intent = "compare" THEN "comparison"
    ELSE "single"

\* which branch of post takes the parsed query
dispatch(intent, areas) ==
    IF areas = <<>> THEN "clarification"
    ELSE IF intent = "compare" /\ Len(areas) > 1 THEN "comparison"
    ELSE "single"

no_areas_found ==   \* "No areas found"
    <<78, 111, 32, 97, 114, 101, 97, 115, 32, 102, 111, 117, 110, 100>>

\* the clarification branch of post
clarification(query, df) ==
    Then(get_available_areas(df), LAMBDA available_areas :
    Then(IF Len(available_areas) > 0
         THEN join_names(sep_comma, Head5(available_areas))
         ELSE Return(no_areas_found), LAMBDA suggestion :
        Return(Response([summary |-> [kind |-> "clarification",
                                      suggestion |-> suggestion],
                         chart |-> None, table |-> <<>>, query |-> query],
                        200))))

\* the body of the try block of ChatQueryView.post
post_try(query, f) ==
    Then(load_data(f), LAMBDA df :
    Then(_parse_query(query, df), LAMBDA parsed :
        IF dispatch(parsed.intent, parsed.areas) = "clarification"
        THEN clarification(query, df)
        ELSE Then(IF dispatch(parsed.intent, parsed.areas) = "comparison"
                  THEN _handle_comparison(parsed.areas, query, df)
                  ELSE _handle_single_area_analysis(parsed.areas[1],
                                                    parsed.intent, df),
                  LAMBDA handled :
                      Return(Response(handled @@ [query |-> query], 200)))))

\* except Exception: the 500 response
Caught(m) ==
    IF m.raised
    THEN Response([error |-> "Error processing query", exception |-> m.value], 500)
    ELSE m.value

\* ChatQueryView.post on the request's query text
post(raw, f) ==
    IF Strip(raw) = <<>> THEN Response([error |-> "Query is required"], 400)
    ELSE Caught(post_try(Strip(raw), f))

\* the handler post hands the query to: "none" when it never gets that far
Reached(m) == IF m.raised THEN "none" ELSE m.value

handler_of(raw, f) ==
    IF Strip(raw) = <<>> THEN "none"
    ELSE Reached(Then(load_data(f), LAMBDA df :
                 Then(_parse_query(Strip(raw), df), LAMBDA parsed :
                     Return(dispatch(parsed.intent, parsed.areas)))))

\* AreasListView.get
areas_list_get(f) ==
    Caught(Then(load_data(f), LAMBDA df :
           Then(get_available_areas(df), LAMBDA areas :
               Return(Response([areas |-> areas, count |-> Len(areas)], 200)))))

\* DownloadDataView.post
download_post(area, f) ==
    IF area = <<>> THEN Response([error |-> "Area is required"], 400)
    ELSE Caught(Then(load_data(f), LAMBDA df :
                Then(filter_by_area(df, area), LAMBDA filtered_df :
                    IF filtered_df.rows = <<>>
                    THEN Return(Response([error |-> "No data found"], 404))
                    ELSE Return(Response([sheet |-> area,
                                          rows |-> filtered_df.rows], 200)))))

\* RealEstateDataProcessor(path) followed by one call on it
OnData(f, Op(_)) == Then(load_data(f), Op)

-----------------------------------------------------------------------------
(* The spreadsheet at DATA_FILE_PATH and the inputs of the calls *)

MaxWords == 3   \* words of a query
MaxRows  == 2   \* rows of a sheet drawn row by row
MaxAreas == 3   \* areas of a direct compare_areas call
MaxCols  == 3   \* columns of a sheet in the column-order check
BulkRows == 21  \* rows per area of the long sheet

Wakad   == <<87, 97, 107, 97, 100>>         \* "Wakad"
wakad   == <<119, 97, 107, 97, 100>>        \* "wakad"
Aundh   == <<65, 117, 110, 100, 104>>       \* "Aundh"
Akurdi  == <<65, 107, 117, 114, 100, 105>>  \* "Akurdi"
Baner   == <<66, 97, 110, 101, 114>>        \* "Baner"
Kharadi == <<75, 104, 97, 114, 97, 100, 105>>  \* "Kharadi"
Pashan  == <<80, 97, 115, 104, 97, 110>>    \* "Pashan"

\* a column of the sheet: its header as spelled there, and what it holds
col_location    == [header |-> <<76, 111, 99, 97, 116, 105, 111, 110>>,   \* "Location"
                    holds |-> "name"]
col_area        == [header |-> <<65, 114, 101, 97, 32>>,                  \* "Area "
                    holds |-> "name"]
col_area_size   == [header |-> <<65, 114, 101, 97, 32, 83, 105, 122, 101>>,  \* "Area Size"
                    holds |-> "name"]
col_carpet_area == [header |-> <<67, 97, 114, 112, 101, 116, 32, 65, 114, 101, 97>>,  \* "Carpet Area"
                    holds |-> "size"]
col_flat_size   == [header |-> <<70, 108, 97, 116, 32, 83, 105, 122, 101>>,  \* "Flat Size"
                    holds |-> "size"]
col_year        == [header |-> <<89, 101, 97, 114>>, holds |-> "year"]       \* "Year"
col_price       == [header |-> <<80, 114, 105, 99, 101>>, holds |-> "price"] \* "Price"
col_demand      == [header |-> <<68, 101, 109, 97, 110, 100>>,               \* "Demand"
                    holds |-> "demand"]

ColumnPool == {col_location, col_area, col_area_size, col_carpet_area,
               col_flat_size, col_year, col_price, col_demand}

\* one record of the sheet
Row(name, year, price, demand, size) ==
    [name |-> name, year |-> NumCell(year), price |-> NumCell(price),
     demand |-> NumCell(demand), size |-> NumCell(size)]

\* the file: its header row and its records laid out under the headers
Sheet(layout, records) ==
    [ok |-> TRUE,
     headers |-> [i \in 1..Len(layout) |-> layout[i].header],
     rows |-> [r \in 1..Len(records) |->
                  [i \in 1..Len(layout) |-> records[r][layout[i].holds]]]]

Unreadable == [ok |-> FALSE, headers |-> <<>>, rows |-> <<>>]

RowPool ==
    { Row(StrCell(Wakad), 2020, 100, 70, 900),
      Row(StrCell(Wakad), 2021, 105, 40, 1000),
      Row(StrCell(wakad), 2022, 100, 71, 1100),
      Row(StrCell(Aundh), 2020, 0, 39, 800),
      Row(StrCell(Aundh), 2021, 110, 41, 850),
      Row(NaNCell, 2020, 100, 70, 900) }

\* every sequence of at most n elements of S
SeqsUpTo(S, n) == UNION {[1..k -> S] : k \in 0..n}

SmallRows == SeqsUpTo(RowPool, MaxRows)

RowsPune ==
    << Row(StrCell(Wakad), 2020, 100, 70, 900),
       Row(StrCell(Aundh), 2021, 110, 41, 850),
       Row(StrCell(wakad), 2022, 100, 71, 1100),
       Row(NaNCell, 2020, 100, 70, 900),
       Row(StrCell(Wakad), 2021, 105, 40, 1000),
       Row(StrCell(Aundh), 2022, 120, 39, 800) >>

AreaNames == <<Wakad, Pashan, Aundh, wakad, Kharadi, Baner, Akurdi>>

RowsManyAreas ==
    [i \in 1..Len(AreaNames) |->
        Row(StrCell(AreaNames[i]), 2020 + (i % 2), 100 + i, 30 + 10 * i, 900)]

RowsLong ==
    [i \in 1..BulkRows |-> Row(StrCell(Wakad), 2020 + (i % 3), 100 + i, 75, 900)]
    \o [i \in 1..BulkRows |-> Row(StrCell(Aundh), 2021 + (i % 3), 90 + i, 45, 700)]

FixtureRows == {<<>>, RowsManyAreas, RowsLong}

MainLayouts ==
    { <<col_location, col_year, col_price, col_demand, col_flat_size>>,
      <<col_area, col_year, col_price, col_demand>> }

Layouts ==
    MainLayouts \cup
    { <<col_year, col_price, col_demand>>,
      <<col_location, col_price, col_demand, col_flat_size>>,
      <<col_area, col_year, col_flat_size>>,
      <<col_location, col_carpet_area, col_year, col_price, col_demand>>,
      <<col_carpet_area, col_location, col_year, col_price>>,
      <<col_location, col_area, col_year, col_price>>,
      <<col_area_size, col_year, col_price, col_demand>> }

Files ==
    {Unreadable}
    \cup {Sheet(l, RowsPune) : l \in Layouts}
    \cup {Sheet(l, r) : l \in MainLayouts, r \in FixtureRows}

\* the words of a query; the empty word makes leading, trailing and double blanks
QueryWords ==
    { <<>>,
      <<67, 111, 109, 112, 97, 114, 101>>,       \* "Compare"
      <<100, 101, 109, 97, 110, 100, 115>>,      \* "demands"
      <<99, 111, 115, 116, 115>>,                \* "costs"
      <<87, 97, 107, 97, 100>>,                  \* "Wakad"
      <<65, 85, 78, 68, 72>>,                    \* "AUNDH"
      Join(<<32>>, <<Akurdi, Baner, Kharadi, Pashan>>) }

Queries == {Join(<<32>>, ws) : ws \in SeqsUpTo(QueryWords, MaxWords)}

\* the area arguments of the direct calls; no sheet holds Baner Road
AreaArgs == { Wakad,
              <<97, 117, 110, 100, 104>>,                            \* "aundh"
              <<66, 97, 110, 101, 114, 32, 82, 111, 97, 100>> }      \* "Baner Road"

-----------------------------------------------------------------------------
(* Actions: one request or one call at a time, on the file as it is; its   *)
(* outcome is held until the caller has taken it.                          *)

Idle == call.op = "none"

Post(raw) ==
    /\ Idle
    /\ call' = [op |-> "post", query |-> raw, handler |-> handler_of(raw, file)]
    /\ result' = post(raw, file)
    /\ UNCHANGED file

AreasList ==
    /\ Idle
    /\ call' = [op |-> "areas_list"]
    /\ result' = areas_list_get(file)
    /\ UNCHANGED file

Download(area) ==
    /\ Idle
    /\ call' = [op |-> "download", area |-> area]
    /\ result' = download_post(area, file)
    /\ UNCHANGED file

GetAvailableAreas ==
    /\ Idle
    /\ call' = [op |-> "get_available_areas"]
    /\ result' = OnData(file, get_available_areas)
    /\ UNCHANGED file

FilterByArea(area) ==
    /\ Idle
    /\ call' = [op |-> "filter_by_area", area |-> area]
    /\ result' = OnData(file, LAMBDA df : filter_by_area(df, area))
    /\ UNCHANGED file

GetPriceTrend(area) ==
    /\ Idle
    /\ call' = [op |-> "get_price_trend", area |-> area]
    /\ result' = OnData(file, LAMBDA df : get_price_trend(df, area))
    /\ UNCHANGED file

GetDemandTrend(area) ==
    /\ Idle
    /\ call' = [op |-> "get_demand_trend", area |-> area]
    /\ result' = OnData(file, LAMBDA df : get_demand_trend(df, area))
    /\ UNCHANGED file

CompareAreas(areas, metric) ==
    /\ Idle
    /\ call' = [op |-> "compare_areas", areas |-> areas, metric |-> metric]
    /\ result' = OnData(file, LAMBDA df : compare_areas(df, areas, metric))
    /\ UNCHANGED file

ParseQuery(query) ==
    /\ Idle
    /\ call' = [op |-> "_parse_query", query |-> query]
    /\ result' = OnData(file, LAMBDA df : _parse_query(query, df))
    /\ UNCHANGED file

GetSummaryStats(area) ==
    /\ Idle
    /\ call' = [op |-> "get_summary_stats", area |-> area]
    /\ result' = OnData(file, LAMBDA df : get_summary_stats(df, area))
    /\ UNCHANGED file

GetFilteredTableData(area, limit) ==
    /\ Idle
    /\ call' = [op |-> "get_filtered_table_data", area |-> area, limit |-> limit]
    /\ result' = OnData(file, LAMBDA df : get_filtered_table_data(df, area, limit))
    /\ UNCHANGED file

\* generate_summary on a stats dict of the caller's making
GenerateSummary(area, stats) ==
    /\ Idle
    /\ call' = [op |-> "generate_summary", area |-> area, stats |-> stats]
    /\ result' = OnData(file, LAMBDA df : generate_summary(df, area, stats))
    /\ UNCHANGED file

\* generate_summary on the stats get_summary_stats returned for the area
SummariseStats(area, m) ==
    /\ ~m.raised
    /\ call' = [op |-> "summarise", area |-> area, stats |-> m.value]
    /\ result' = OnData(file, LAMBDA df : generate_summary(df, area, m.value))

Summarise(area) ==
    /\ Idle
    /\ SummariseStats(area, OnData(file, LAMBDA df : get_summary_stats(df, area)))
    /\ UNCHANGED file

\* the stats dicts handed to generate_summary: each block present or not
DemandInputs ==
    {Fin(3999, 100), Fin(40, 1), Fin(4001, 100), Fin(6999, 100), Fin(70, 1),
     Fin(7001, 100), NaN}

GrowthInputs ==
    {Fin(-5, 2), Fin(0, 1), Fin(1, 100), Fin(5, 1), Fin(501, 100), Fin(10, 1),
     Inf, NaN}

Maybe(S) == {[has |-> FALSE, v |-> NaN]} \cup {[has |-> TRUE, v |-> x] : x \in S}

StatsDict(area, price, growth, demand, size) ==
    [area |-> area, total_records |-> 3]
    @@ (IF price.has
        THEN [avg_price |-> price.v, min_price |-> price.v, max_price |-> price.v]
        ELSE <<>>)
    @@ (IF growth.has
        THEN [price_growth_pct |-> growth.v, years_analyzed |-> <<2020, 2021>>]
        ELSE <<>>)
    @@ (IF demand.has
        THEN [avg_demand |-> demand.v, min_demand |-> demand.v,
              max_demand |-> demand.v]
        ELSE <<>>)
    @@ (IF size.has THEN [avg_size |-> size.v] ELSE <<>>)

Init ==
    /\ file \in Files
    /\ call = [op |-> "none"]
    /\ result = None

\* the caller takes the outcome
Taken ==
    /\ ~Idle
    /\ call' = [op |-> "none"]
    /\ result' = None
    /\ UNCHANGED file

Requests ==
    \/ \E raw \in Queries : Post(raw)
    \/ \E query \in Queries : ParseQuery(query)
    \/ AreasList
    \/ \E area \in AreaArgs \cup {<<>>} : Download(area)

Calls ==
    \/ GetAvailableAreas
    \/ \E area \in AreaArgs : FilterByArea(area)
    \/ \E area \in AreaArgs : GetPriceTrend(area)
    \/ \E area \in AreaArgs : GetDemandTrend(area)
    \/ \E areas \in SeqsUpTo(AreaArgs, MaxAreas), metric \in {"price", "demand"} :
           CompareAreas(areas, metric)
    \/ \E area \in AreaArgs : GetSummaryStats(area)
    \/ \E area \in AreaArgs, limit \in {10, 20} : GetFilteredTableData(area, limit)
    \/ \E area \in AreaArgs : Summarise(area)

Summaries ==
    \E price \in Maybe({Fin(100, 1)}), growth \in Maybe(GrowthInputs),
       demand \in Maybe(DemandInputs), size \in Maybe({Fin(900, 1)}) :
        GenerateSummary(Wakad, StatsDict(Wakad, price, growth, demand, size))

Next == Requests \/ Calls \/ Summaries \/ Taken

Spec == Init /\ [][Next]_vars

\* the processor alone, on sheets drawn row by row
ProcessorLayouts ==
    { <<col_location, col_year, col_price, col_demand, col_flat_size>>,
      <<col_area, col_price, col_demand>>,
      <<col_carpet_area, col_location, col_year, col_price>> }

InitProcessor ==
    /\ file \in {Sheet(l, r) : l \in ProcessorLayouts, r \in SmallRows}
    /\ call = [op |-> "none"]
    /\ result = None

NextProcessor == Calls \/ Taken

SpecProcessor == InitProcessor /\ [][NextProcessor]_vars

\* get_summary_stats on every order of every choice of columns
ColumnOrders ==
    {l \in SeqsUpTo(ColumnPool, MaxCols) :
        Len(l) > 0 /\ \A i, j \in 1..Len(l) : i # j => l[i] # l[j]}

InitColumns ==
    /\ file \in {Sheet(l, RowsPune) : l \in ColumnOrders}
    /\ call = [op |-> "none"]
    /\ result = None

NextColumns == (\E area \in AreaArgs : GetSummaryStats(area)) \/ Taken

SpecColumns == InitColumns /\ [][NextColumns]_vars

\* get_summary_stats on sheets of priced years, drawn row by row
MaxPricedRows == 3

PricedRowPool ==
    {Row(StrCell(Wakad), year, price, 70, 900) :
        year \in {2020, 2021}, price \in {0, 100, 110}}
    \cup {Row(StrCell(wakad), 2022, 110, 70, 900),
          Row(StrCell(Aundh), 2019, 100, 70, 900),
          [Row(StrCell(Wakad), 2020, 100, 70, 900) EXCEPT !.year = NaNCell]}

PricedLayouts ==
    { <<col_location, col_year, col_price>>,
      <<col_location, col_price>>,
      <<col_location, col_year, col_demand>> }

InitPriced ==
    /\ file \in {Sheet(l, r) : l \in PricedLayouts,
                               r \in SeqsUpTo(PricedRowPool, MaxPricedRows)}
    /\ call = [op |-> "none"]
    /\ result = None

NextPriced == (\E area \in AreaArgs : GetSummaryStats(area)) \/ Taken

SpecPriced == InitPriced /\ [][NextPriced]_vars

-----------------------------------------------------------------------------
(* Properties *)

\* generate_summary has returned a report
Reported ==
    /\ call.op \in {"generate_summary", "summarise"}
    /\ ~result.raised
    /\ result.value.kind = "report"

C2_GrowthFraming ==
    (Reported /\ "price_growth_pct" \in DOMAIN call.stats
              /\ call.stats.price_growth_pct.k = "fin") =>
        LET g == call.stats.price_growth_pct
            framing == result.value.growth_insight.framing
        IN  /\ (framing = "strong") <=> (g.n > 5 * g.d)
            /\ (framing = "steady") <=> (g.n >= 0 /\ g.n <= 5 * g.d)
            /\ (framing = "decline") <=> (g.n < 0)
            /\ "growth_trend" \in DOMAIN result.value =>
                   /\ (result.value.growth_trend.trend_word = "decreased")
                          <=> (framing = "decline")
                   /\ (result.value.growth_trend.trend_word = "remained stable")
                          <=> (g.n = 0)

\* C3 as stated: a non-empty query on a sheet that loads is answered with a
\* success status.
C3_OnlyLoadErrorFails ==
    (call.op = "post" /\ file.ok /\ Strip(call.query) # <<>>) =>
        result.status = 200

\* C4: the intent is "compare" when a compare keyword occurs in the lower-cased
\* query, else "demand" when a demand keyword does, else "price" when a price
\* keyword does, else "analysis".
C4_IntentPriority ==
    (call.op = "_parse_query" /\ ~result.raised) =>
        LET q == Lower(call.query)
            has(words) == \E w \in Range(words) : Contains(q, w)
            intent == result.value.intent
        IN  /\ intent \in {"compare", "demand", "price", "analysis"}
            /\ has(compare_keywords) => intent = "compare"
            /\ (~has(compare_keywords) /\ has(demand_keywords)) => intent = "demand"
            /\ (~has(compare_keywords) /\ ~has(demand_keywords)
                    /\ has(price_keywords)) => intent = "price"
            /\ (~has(compare_keywords) /\ ~has(demand_keywords)
                    /\ ~has(price_keywords)) => intent = "analysis"

\* a query with a compare, a demand and a price keyword, parsed as "compare"
C4_Witness ==
    /\ call.op = "_parse_query"
    /\ ~result.raised
    /\ Contains(Lower(call.query), compare_keywords[1])
    /\ Contains(Lower(call.query), demand_keywords[1])
    /\ Contains(Lower(call.query), price_keywords[2])
    /\ result.value.intent = "compare"

\* the sheet as the processor holds it, when it loads
Frame == load_data(file).value

\* the position of a column of the frame
IndexOf(df, col) == CHOOSE j \in 1..Len(df.columns) : df.columns[j] = col

\* the rows of the frame whose area cell is the given name, whatever its case
RowsOf(df, area) ==
    IF ~\E j \in 1..Len(df.columns) : IsAreaName(df.columns[j]) THEN <<>>
    ELSE LET j == CHOOSE c \in 1..Len(df.columns) :
                      /\ IsAreaName(df.columns[c])
                      /\ \A b \in 1..(c - 1) : ~IsAreaName(df.columns[b])
         IN  SelectSeq(df.rows, LAMBDA row :
                 row[j].k = "str" /\ Lower(row[j].s) = Lower(area))

\* the area names the frame holds
KnownNames(df) ==
    IF ~\E j \in 1..Len(df.columns) : IsAreaName(df.columns[j]) THEN {}
    ELSE LET j == CHOOSE c \in 1..Len(df.columns) :
                      /\ IsAreaName(df.columns[c])
                      /\ \A b \in 1..(c - 1) : ~IsAreaName(df.columns[b])
         IN  {df.rows[i][j].s : i \in {r \in 1..Len(df.rows) :
                                          df.rows[r][j].k = "str"}}

Ascending(names) ==
    \A i \in 1..(Len(names) - 1) : StrLess(names[i], names[i + 1])

\* post has been asked a non-empty query on a sheet that loads
Asked == call.op = "post" /\ file.ok /\ Strip(call.query) # <<>>

\* C5: when none of the sheet's area names occurs in the query, post answers
\* with the clarification response: status 200, no chart, an empty table and
\* the first five area names at most, whatever keywords the query holds, and
\* neither handler is entered.
C5_Clarification ==
    (/\ Asked
     /\ ~get_available_areas(Frame).raised
     /\ \A c \in Range(get_available_areas(Frame).value) :
            c.k = "str" /\ ~Contains(Lower(Strip(call.query)), Lower(c.s))) =>
        LET known == get_available_areas(Frame).value
            names == [i \in 1..Min(5, Len(known)) |-> known[i].s]
        IN  /\ call.handler = "clarification"
            /\ result.status = 200
            /\ DOMAIN result.body = {"summary", "chart", "table", "query"}
            /\ result.body.summary.kind = "clarification"
            /\ result.body.chart = None
            /\ result.body.table = <<>>
            /\ result.body.summary.suggestion =
                   IF names = <<>> THEN no_areas_found ELSE Join(sep_comma, names)

\* a query with compare, demand and price keywords and no area name, on a sheet
\* of more than five areas, answered with a clarification
C5_Witness ==
    /\ Asked
    /\ Cardinality(KnownNames(Frame)) > 5
    /\ Contains(Lower(call.query), compare_keywords[1])
    /\ Contains(Lower(call.query), demand_keywords[1])
    /\ Contains(Lower(call.query), price_keywords[2])
    /\ call.handler = "clarification"
    /\ result.status = 200
    /\ result.body.summary.kind = "clarification"

\* C6: with an area matched, post enters the comparison handler exactly when
\* the intent is "compare" and two areas or more matched, and the single-area
\* handler for the first matched area otherwise.  The comparison response
\* carries the comparison flag, a chart of datasets and at most 10 rows of the
\* first matched area; the single-area response carries the demand trend of
\* the first matched area when the intent is "demand" and its price trend
\* otherwise, and at most 20 of its rows.
C6_Dispatch ==
    (/\ Asked
     /\ ~_parse_query(Strip(call.query), Frame).raised
     /\ _parse_query(Strip(call.query), Frame).value.areas # <<>>) =>
        LET parsed == _parse_query(Strip(call.query), Frame).value
            first == parsed.areas[1]
            compare == parsed.intent = "compare" /\ Len(parsed.areas) >= 2
            body == result.body
            rows == RowsOf(Frame, first)
        IN  /\ call.handler = IF compare THEN "comparison" ELSE "single"
            /\ result.status \in {200, 500}
            /\ result.status = 200 =>
                /\ ("comparison" \in DOMAIN body) <=> compare
                /\ ("stats" \in DOMAIN body) <=> ~compare
                /\ compare =>
                    /\ body.comparison
                    /\ body.summary.kind = "comparison"
                    /\ "datasets" \in DOMAIN body.chart
                    /\ body.table = SubSeq(rows, 1, Min(10, Len(rows)))
                /\ ~compare =>
                    /\ body.summary.area = first
                    /\ body.stats.area = first
                    /\ body.chart =
                           IF parsed.intent = "demand"
                           THEN get_demand_trend(Frame, first).value
                           ELSE get_price_trend(Frame, first).value
                    /\ body.table = SubSeq(rows, 1, Min(20, Len(rows)))

\* a compare query naming one area of more than 20 rows, answered by the
\* single-area handler with the price trend and 20 rows
C6_Witness ==
    /\ Asked
    /\ ~_parse_query(Strip(call.query), Frame).raised
    /\ _parse_query(Strip(call.query), Frame).value.intent = "compare"
    /\ Len(_parse_query(Strip(call.query), Frame).value.areas) = 1
    /\ call.handler = "single"
    /\ result.status = 200
    /\ "comparison" \notin DOMAIN result.body
    /\ result.body.chart = get_price_trend(Frame, Wakad).value
    /\ "type" \in DOMAIN result.body.chart
    /\ Len(RowsOf(Frame, Wakad)) > 20
    /\ Len(result.body.table) = 20

\* C7 as stated: get_summary_stats never takes the area column as the size
\* column.
C7_SizeNotArea ==
    (call.op = "get_summary_stats" /\ file.ok
         /\ area_columns(Frame) # <<>>) =>
        size_col(Frame) # _get_area_column(Frame)

\* C8: _parse_query returns exactly the sheet's area names whose lower-cased
\* form occurs in the lower-cased query, however many, in ascending order.
C8_MatchedAreas ==
    (call.op = "_parse_query" /\ file.ok /\ ~result.raised) =>
        LET areas == result.value.areas
        IN  /\ Ascending(areas)
            /\ Range(areas) = {a \in KnownNames(Frame) :
                                  Contains(Lower(call.query), Lower(a))}

\* a query that names Wakad first and matches more than five areas, the first
\* of them another one
C8_Witness ==
    /\ call.op = "_parse_query"
    /\ ~result.raised
    /\ Len(call.query) >= Len(Wakad)
    /\ SubSeq(call.query, 1, Len(Wakad)) = Wakad
    /\ Len(result.value.areas) > 5
    /\ result.value.areas[1] # Wakad

\* C9: with the year and metric columns resolved, the labels of compare_areas
\* are the years of the compared areas that have rows, each once, ascending,
\* and the datasets are those areas in the order given.
C9_UnionOfYears ==
    (/\ call.op = "compare_areas" /\ file.ok /\ ~result.raised
     /\ year_col(Frame.columns) # <<>>
     /\ (IF call.metric = "price" THEN price_col(Frame.columns)
         ELSE demand_col(Frame.columns)) # <<>>) =>
        LET y == IndexOf(Frame, year_col(Frame.columns))
            YearsOf(area) == {row[y].n : row \in {r \in Range(RowsOf(Frame, area)) :
                                                     r[y].k = "num"}}
            present == SelectSeq(call.areas,
                                 LAMBDA area : RowsOf(Frame, area) # <<>>)
            labels == result.value.labels
            datasets == result.value.datasets
        IN  /\ Range(labels) = UNION {YearsOf(area) : area \in Range(present)}
            /\ \A i \in 1..(Len(labels) - 1) : labels[i] < labels[i + 1]
            /\ [i \in 1..Len(datasets) |-> datasets[i].label] = present

\* two areas of one year each, the years different, and an area without rows
\* between them: two labels, two datasets
C9_Witness ==
    /\ call.op = "compare_areas"
    /\ ~result.raised
    /\ Len(call.areas) = 3
    /\ RowsOf(Frame, call.areas[2]) = <<>>
    /\ Len(result.value.datasets) = 2
    /\ Len(result.value.datasets[1].data) = 1
    /\ Len(result.value.datasets[2].data) = 1
    /\ Len(result.value.labels) = 2

\* C10 as stated: get_summary_stats on an area without rows returns the
\* outcome carrying 'error' and never raises, and generate_summary of that
\* outcome is the error narrative with five area names at most and no section.
C10_DataAbsent ==
    /\ (call.op = "get_summary_stats" /\ file.ok
            /\ RowsOf(Frame, call.area) = <<>>) =>
           (~result.raised /\ "error" \in DOMAIN result.value)
    /\ (call.op = "summarise" /\ file.ok /\ "error" \in DOMAIN call.stats) =>
           /\ ~result.raised
           /\ DOMAIN result.value = {"kind", "area", "available_areas"}
           /\ result.value.kind = "error"
           /\ \E n \in 0..5 : \E names \in [1..n -> KnownNames(Frame)] :
                  result.value.available_areas = Join(sep_comma, names)

\* the numbers in the named column of the given rows, blanks left out
NumbersIn(df, rows, col) ==
    LET nums == SelectSeq(rows, LAMBDA row : row[IndexOf(df, col)].k = "num")
    IN  [i \in 1..Len(nums) |-> nums[i][IndexOf(df, col)].n]

\* C11: get_summary_stats gives price_growth_pct and years_analyzed exactly
\* when the price and year columns are resolved and the area's rows hold two
\* distinct years or more; the percentage is (mean price of the last year -
\* mean price of the first year) / mean price of the first year * 100, not
\* rounded, and the range runs from the first year to the last.
C11_GrowthPct ==
    (/\ call.op = "get_summary_stats" /\ file.ok /\ ~result.raised
     /\ "error" \notin DOMAIN result.value) =>
        LET df == Frame
            stats == result.value
            rows == RowsOf(df, call.area)
            pcol == price_col(df.columns)
            ycol == year_col(df.columns)
            resolved == pcol # <<>> /\ ycol # <<>>
            years == IF resolved THEN Range(NumbersIn(df, rows, ycol)) ELSE {}
            first == CHOOSE y \in years : \A o \in years : y <= o
            last == CHOOSE y \in years : \A o \in years : o <= y
            InYear(y) == SelectSeq(rows, LAMBDA row :
                             row[IndexOf(df, ycol)] = NumCell(y))
            sum(y) == SumSeq(NumbersIn(df, InYear(y), pcol))
            count(y) == Len(NumbersIn(df, InYear(y), pcol))
            \* last mean - first mean, and first mean, over a common denominator
            rise == sum(last) * count(first) - sum(first) * count(last)
            base == sum(first) * count(last)
            growth == stats.price_growth_pct
        IN  /\ ("price_growth_pct" \in DOMAIN stats)
                   <=> (resolved /\ Cardinality(years) >= 2)
            /\ ("years_analyzed" \in DOMAIN stats)
                   <=> (resolved /\ Cardinality(years) >= 2)
            /\ "price_growth_pct" \in DOMAIN stats =>
                /\ stats.years_analyzed = <<first, last>>
                /\ base > 0 => /\ growth.k = "fin"
                               /\ growth.n * base = growth.d * 100 * rise
                /\ (base = 0 /\ rise > 0) => growth = Inf
                /\ (base = 0 /\ rise = 0) => growth = NaN

\* yearly mean prices of 100 in 2020 and 110 in 2021: a growth of exactly 10
C11_Witness ==
    /\ call.op = "get_summary_stats"
    /\ ~result.raised
    /\ Len(RowsOf(Frame, call.area)) = 2
    /\ "price_growth_pct" \in DOMAIN result.value
    /\ result.value.years_analyzed = <<2020, 2021>>
    /\ result.value.min_price = Fin(100, 1)
    /\ result.value.max_price = Fin(110, 1)
    /\ result.value.price_growth_pct = Fin(10, 1)

\* C12: every area _parse_query returns is a name of the sheet's area column,
\* so filter_by_area finds rows for it.  Hence a single-area answer of post
\* never is the data-absent one (stats carrying 'error', no chart, empty
\* table), and a comparison answer has a section for every matched area and,
\* with the year and metric columns resolved, a dataset for every matched
\* area, in order.
C12_MatchedAreasHaveRows ==
    /\ (call.op = "_parse_query" /\ file.ok /\ ~result.raised) =>
           \A area \in Range(result.value.areas) :
               /\ area \in KnownNames(Frame)
               /\ ~filter_by_area(Frame, area).raised
               /\ filter_by_area(Frame, area).value.rows # <<>>
    /\ (Asked /\ call.handler = "single" /\ result.status = 200) =>
           /\ "error" \notin DOMAIN result.body.stats
           /\ result.body.summary.kind = "report"
           /\ result.body.chart # None
           /\ result.body.table # <<>>
    /\ (Asked /\ call.handler = "comparison" /\ result.status = 200) =>
           LET areas == _parse_query(Strip(call.query), Frame).value.areas
               metric == comparison_metric(Lower(call.query))
               datasets == result.body.chart.datasets
           IN  /\ [i \in 1..Len(result.body.summary.sections) |->
                      result.body.summary.sections[i].area] = areas
               /\ (/\ year_col(Frame.columns) # <<>>
                   /\ (IF metric = "price" THEN price_col(Frame.columns)
                       ELSE demand_col(Frame.columns)) # <<>>) =>
                      [i \in 1..Len(datasets) |-> datasets[i].label] = areas

\* a comparison of three matched areas, two of them the same name in another
\* case, answered with three sections and three datasets
C12_Witness ==
    /\ Asked
    /\ call.handler = "comparison"
    /\ result.status = 200
    /\ Len(result.body.summary.sections) = 3
    /\ Len(result.body.chart.datasets) = 3
    /\ result.body.chart.datasets[2].label = Wakad
    /\ result.body.chart.datasets[3].label = wakad

====
